---- MODULE Spec2Model ----
(***************************************************************************)
(* blinkstickcpp, src/device.cpp: the message codec (anonymous namespace)  *)
(* and the blinkstick::device facade, with the HID transport it talks to.  *)
(* Every facade operation is one action; the transport calls an operation  *)
(* issues are recorded in `calls`, its arguments in `arg`, its result in   *)
(* `ret`.                                                                  *)
(***************************************************************************)
EXTENDS Integers, Sequences, FiniteSets

VARIABLES
    handle,         \* device::handle: "open" or "null" (shared_ptr<hid_device>)
    led_count,      \* device::led_count, an optional: [has, val]
    dev,            \* the HID device behind the transport: [mode, count, leds]
    crashed,        \* the process died in a transport call on a null handle
    op,             \* the operation that ran last
    arg,            \* its arguments
    ret,            \* its return value
    calls,          \* the transport calls it issued, in order
    pre_led_count,  \* led_count as it was when the operation started
    cache_src       \* where led_count's value came from: none, read, read_failed, set

vars == <<handle, led_count, dev, crashed, op, arg, ret, calls, pre_led_count, cache_src>>

\* ---------------------------------------------------------------- bounds

\* Modes are the bytes 0..MaxMode.
MaxMode == 2
\* determine_report_id is applied to -MinByteCount..MaxByteCount (255 LEDs are 765 bytes).
MaxByteCount == 770
MinByteCount == 6
\* The longest colour vector passed to set_colours.
MaxVecLen == 264

\* ---------------------------------------------------------------- codec

\* The conversion of an int argument to a uint8_t parameter.
U8(x) == x % 256

Min(a, b) == IF a <= b THEN a ELSE b

\* blinkstick::mode's "unknown" value, as a byte.
unknown == 0

Black == [red |-> 0, green |-> 0, blue |-> 0]

rgb_to_char(red, green, blue) == <<U8(red), U8(green), U8(blue)>>

build_control_message(index, channel, color) ==
    LET i == U8(index)
        c == U8(channel)
    IN  IF i = 0 /\ c = 0
        THEN <<1, color[1], color[2], color[3]>>
        ELSE <<5, c, i, color[1], color[2], color[3]>>

build_mode_message(mode) == <<4, U8(mode)>>

build_count_message(count) == <<129, U8(count)>>

\* A plausible slip: the first tier's threshold taken as strict.
determine_report_id_strict(count) ==
    IF count < 8 * 3 THEN <<6, 8>>
    ELSE IF count <= 16 * 3 THEN <<7, 16>>
    ELSE IF count <= 32 * 3 THEN <<8, 32>>
    ELSE IF count <= 64 * 3 THEN <<9, 64>>
    ELSE IF count <= 128 * 3 THEN <<10, 64>>
    ELSE <<9, 64>>

\* <<report_id, max_leds>>; the fall-through keeps the initial values 9 and 64.
determine_report_id(count) ==
    IF count <= 8 * 3 THEN <<6, 8>>
    ELSE IF count <= 16 * 3 THEN <<7, 16>>
    ELSE IF count <= 32 * 3 THEN <<8, 32>>
    ELSE IF count <= 64 * 3 THEN <<9, 64>>
    ELSE IF count <= 128 * 3 THEN <<10, 64>>
    ELSE <<9, 64>>

\* ------------------------------------------------------------ transport

\* What a hid_* call can do: on an open handle it succeeds or reports -1; on a
\* null handle the library dereferences it (undefined: it reports -1 or the
\* process dies).
TransportResults == IF handle = "open" THEN {"ok", "fail"} ELSE {"fail", "crash"}

LedAt(leds, i) == IF i \in DOMAIN leds THEN leds[i] ELSE Black

\* The device's LED memory with the LEDs of `upd` rewritten (black LEDs are not kept).
SetLeds(leds, upd) ==
    LET all == [i \in (DOMAIN leds) \cup (DOMAIN upd) |->
                    IF i \in DOMAIN upd THEN upd[i] ELSE leds[i]]
    IN  [i \in {j \in DOMAIN all : all[j] # Black} |-> all[i]]

\* The device after receiving feature report `msg`.
DevApply(d, msg) ==
    IF msg[1] = 4 THEN [d EXCEPT !.mode = msg[2]]
    ELSE IF msg[1] = 129 THEN [d EXCEPT !.count = msg[2]]
    ELSE IF msg[1] = 1
        THEN [d EXCEPT !.leds = SetLeds(@, [i \in {0} |->
                [red |-> msg[2], green |-> msg[3], blue |-> msg[4]]])]
    ELSE IF msg[1] = 5
        THEN [d EXCEPT !.leds = SetLeds(@, [i \in {msg[3]} |->
                [red |-> msg[4], green |-> msg[5], blue |-> msg[6]]])]
    ELSE [d EXCEPT !.leds = SetLeds(@, [i \in 0..((Len(msg) - 2) \div 3 - 1) |->
                [red |-> msg[3 * i + 4], green |-> msg[3 * i + 3], blue |-> msg[3 * i + 5]]])]

\* The device's answer to a read of report `id` into a buffer of `len` bytes.
DevReply(d, id, len) ==
    IF id = 129 THEN <<129, d.count>>
    ELSE IF id = 1
        THEN [k \in 1..len |->
                IF k = 1 THEN 1
                ELSE IF k = 2 THEN LedAt(d.leds, 0).red
                ELSE IF k = 3 THEN LedAt(d.leds, 0).green
                ELSE IF k = 4 THEN LedAt(d.leds, 0).blue
                ELSE 0]
    ELSE [k \in 1..len |->
                IF k = 1 THEN id
                ELSE IF k = 2 THEN 0
                ELSE LET c == LedAt(d.leds, (k - 3) \div 3)
                     IN  IF (k - 3) % 3 = 0 THEN c.green
                         ELSE IF (k - 3) % 3 = 1 THEN c.red
                         ELSE c.blue]

send_feature_report(msg, r) ==
    [fn |-> "send", msg |-> msg, res |-> IF r = "ok" THEN Len(msg) ELSE -1]

get_feature_report(id, len, r) ==
    [fn |-> "get", id |-> id, len |-> len, res |-> IF r = "ok" THEN len ELSE -1]

\* --------------------------------------------------------------- facade

Unset == [has |-> FALSE, val |-> 0]
Some(n) == [has |-> TRUE, val |-> n]

\* The outcome of an operation: its return value, the cache and the device after
\* it, the transport calls it issued, whether the process died in it.
Outcome(r, lc, src, cs, d, cr) ==
    [ret |-> r, cache |-> lc, src |-> src, calls |-> cs, dev |-> d, crash |-> cr]

\* A variant that never stores what it read.
get_led_count_nocache(lc, src) ==
    IF lc.has
    THEN {Outcome(lc.val, lc, src, <<>>, dev, FALSE)}
    ELSE {LET data == IF r = "ok" THEN DevReply(dev, 129, 2) ELSE build_count_message(0)
          IN  Outcome(data[2], lc, src, <<get_feature_report(129, 2, r)>>, dev, r = "crash")
          : r \in TransportResults}

\* A variant that tests the cached value instead of its presence.
get_led_count_truthy(lc, src) ==
    IF lc.has /\ lc.val # 0
    THEN {Outcome(lc.val, lc, src, <<>>, dev, FALSE)}
    ELSE {LET data == IF r = "ok" THEN DevReply(dev, 129, 2) ELSE build_count_message(0)
          IN  IF r = "crash"
              THEN Outcome(0, lc, src, <<get_feature_report(129, 2, r)>>, dev, TRUE)
              ELSE Outcome(data[2], Some(data[2]),
                           IF r = "ok" THEN "read" ELSE "read_failed",
                           <<get_feature_report(129, 2, r)>>, dev, FALSE)
          : r \in TransportResults}

\* A failed read leaves the buffer as built, [0x81, 0]; its second byte is cached
\* whatever the result.
get_led_count(lc, src) ==
    IF lc.has
    THEN {Outcome(lc.val, lc, src, <<>>, dev, FALSE)}
    ELSE {LET data == IF r = "ok" THEN DevReply(dev, 129, 2) ELSE build_count_message(0)
          IN  IF r = "crash"
              THEN Outcome(0, lc, src, <<get_feature_report(129, 2, r)>>, dev, TRUE)
              ELSE Outcome(data[2], Some(data[2]),
                           IF r = "ok" THEN "read" ELSE "read_failed",
                           <<get_feature_report(129, 2, r)>>, dev, FALSE)
          : r \in TransportResults}

\* The operation `name` ran on `a` with outcome `o`.
Finish(name, a, o) ==
    /\ op' = name
    /\ arg' = a
    /\ ret' = IF o.crash THEN ret ELSE o.ret
    /\ calls' = o.calls
    /\ led_count' = o.cache
    /\ cache_src' = o.src
    /\ dev' = o.dev
    /\ crashed' = o.crash
    /\ pre_led_count' = led_count
    /\ UNCHANGED handle

GetLedCount ==
    /\ ~crashed
    /\ \E o \in get_led_count(led_count, cache_src) : Finish("get_led_count", [none |-> 0], o)

\* ------------------------------------------------------------ operations

set_mode(mode, lc, src) ==
    LET msg == build_mode_message(mode)
    IN  IF handle = "null"
        THEN {Outcome(FALSE, lc, src, <<>>, dev, FALSE)}
        ELSE {Outcome(r = "ok", lc, src, <<send_feature_report(msg, r)>>,
                      IF r = "ok" THEN DevApply(dev, msg) ELSE dev, FALSE)
              : r \in TransportResults}

\* No null check; the buffer is passed to the send primitive, which takes it const.
get_mode(lc, src) ==
    LET data == build_mode_message(unknown)
    IN  {Outcome(IF r = "ok" THEN data[2] ELSE unknown, lc, src,
                 <<send_feature_report(data, r)>>,
                 IF r = "ok" THEN DevApply(dev, data) ELSE dev, r = "crash")
         : r \in TransportResults}

set_colour(channel, index, red, green, blue, lc, src) ==
    IF handle = "null"
    THEN {Outcome(FALSE, lc, src, <<>>, dev, FALSE)}
    ELSE LET color == rgb_to_char(red, green, blue)
             msg == build_control_message(index, channel, color)
         IN  {Outcome(r = "ok", lc, src, <<send_feature_report(msg, r)>>,
                      IF r = "ok" THEN DevApply(dev, msg) ELSE dev, FALSE)
              : r \in TransportResults}

\* set_colours(channel, colours): the vector overload.
set_colours(channel, colours, lc, src) ==
    IF handle = "null"
    THEN {Outcome(FALSE, lc, src, <<>>, dev, FALSE)}
    ELSE UNION {
        LET rm == determine_report_id(g.ret * 3)
            report_id == rm[1]
            max_leds == rm[2]
            colourSize == Min(U8(Len(colours)), max_leds)
            msg == [k \in 1..(max_leds * 3 + 2) |->
                        IF k = 1 THEN report_id
                        ELSE IF k = 2 THEN U8(channel)
                        ELSE IF (k - 3) \div 3 < colourSize
                            THEN LET colour == colours[(k - 3) \div 3 + 1]
                                 IN  IF (k - 3) % 3 = 0 THEN colour.green
                                     ELSE IF (k - 3) % 3 = 1 THEN colour.red
                                     ELSE colour.blue
                        ELSE 0]
        IN  {Outcome(r = "ok", g.cache, g.src, g.calls \o <<send_feature_report(msg, r)>>,
                     IF r = "ok" THEN DevApply(dev, msg) ELSE dev, FALSE)
             : r \in TransportResults}
        : g \in get_led_count(lc, src)}

\* set_colours(channel, red, green, blue): get_led_count() runs before the null check
\* of the overload it delegates to.
set_colours_rgb(channel, red, green, blue, lc, src) ==
    UNION {
        IF g.crash
        THEN {[g EXCEPT !.ret = FALSE]}
        ELSE LET colours == [i \in 1..g.ret |->
                                [red |-> U8(red), green |-> U8(green), blue |-> U8(blue)]]
             IN  {[o EXCEPT !.calls = g.calls \o @]
                  : o \in set_colours(channel, colours, g.cache, g.src)}
        : g \in get_led_count(lc, src)}

\* The bytes get_colour reads at 0-based offset `off` of a reply of `len` bytes: inside
\* the buffer the reply's byte, outside it (undefined) any byte.
ReadAt(reply, off) ==
    IF 0 <= off /\ off < Len(reply) THEN {reply[off + 1]} ELSE {0, 85, 255}

get_colour(index, lc, src) ==
    IF index = 0
    THEN {IF r = "ok"
          THEN LET data == DevReply(dev, 1, 33)
               IN  Outcome([red |-> data[2], green |-> data[3], blue |-> data[4]],
                           lc, src, <<get_feature_report(1, 33, r)>>, dev, FALSE)
          ELSE Outcome(Black, lc, src, <<get_feature_report(1, 33, r)>>, dev, r = "crash")
          : r \in TransportResults}
    ELSE LET count == (index + 1) * 3
             rm == determine_report_id(count)
             report_id == rm[1]
             max_leds == rm[2]
             size == max_leds * 3 + 2
         IN  UNION {
                IF r = "ok"
                THEN LET data == DevReply(dev, report_id, size)
                     IN  {Outcome([red |-> x, green |-> y, blue |-> z], lc, src,
                                  <<get_feature_report(report_id, size, r)>>, dev, FALSE)
                          : x \in ReadAt(data, index * 3 + 3),
                            y \in ReadAt(data, index * 3 + 2),
                            z \in ReadAt(data, index * 3 + 4)}
                ELSE {Outcome(Black, lc, src,
                              <<get_feature_report(report_id, size, r)>>, dev, r = "crash")}
                : r \in TransportResults}

\* A variant that stores the count before it knows the send succeeded.
set_led_count_eager(count, lc, src) ==
    IF handle = "null"
    THEN {Outcome(FALSE, lc, src, <<>>, dev, FALSE)}
    ELSE LET msg == build_count_message(count)
         IN  {Outcome(r = "ok", Some(U8(count)), "set", <<send_feature_report(msg, r)>>,
                      IF r = "ok" THEN DevApply(dev, msg) ELSE dev, FALSE)
              : r \in TransportResults}

set_led_count(count, lc, src) ==
    IF handle = "null"
    THEN {Outcome(FALSE, lc, src, <<>>, dev, FALSE)}
    ELSE LET msg == build_count_message(count)
         IN  {IF r = "ok"
              THEN Outcome(TRUE, Some(U8(count)), "set", <<send_feature_report(msg, r)>>,
                           DevApply(dev, msg), FALSE)
              ELSE Outcome(FALSE, lc, src, <<send_feature_report(msg, r)>>, dev, FALSE)
              : r \in TransportResults}

\* The input vector of length n: every position holds a different colour.
MkColours(n) ==
    [i \in 1..n |-> [red |-> (7 * i) % 256, green |-> (11 * i + 1) % 256,
                     blue |-> (13 * i + 2) % 256]]

\* ------------------------------------------------------------- actions

SetMode(modes) ==
    /\ ~crashed
    /\ \E m \in modes : \E o \in set_mode(m, led_count, cache_src) :
            Finish("set_mode", [mode |-> m], o)

GetMode ==
    /\ ~crashed
    /\ \E o \in get_mode(led_count, cache_src) : Finish("get_mode", [none |-> 0], o)

SetColour(channels, indexes, rgbs) ==
    /\ ~crashed
    /\ \E ch \in channels, i \in indexes, c \in rgbs :
        \E o \in set_colour(ch, i, c[1], c[2], c[3], led_count, cache_src) :
            Finish("set_colour",
                   [channel |-> ch, index |-> i, red |-> c[1], green |-> c[2], blue |-> c[3]], o)

SetColours(channels, lens) ==
    /\ ~crashed
    /\ \E ch \in channels, n \in lens :
        \E o \in set_colours(ch, MkColours(n), led_count, cache_src) :
            Finish("set_colours", [channel |-> ch, colours |-> MkColours(n)], o)

SetColoursRgb(channels, rgbs) ==
    /\ ~crashed
    /\ \E ch \in channels, c \in rgbs :
        \E o \in set_colours_rgb(ch, c[1], c[2], c[3], led_count, cache_src) :
            Finish("set_colours_rgb",
                   [channel |-> ch, red |-> c[1], green |-> c[2], blue |-> c[3]], o)

GetColour(indexes) ==
    /\ ~crashed
    /\ \E i \in indexes : \E o \in get_colour(i, led_count, cache_src) :
            Finish("get_colour", [index |-> i], o)

\* off(channel, index)
OffLed(channels, indexes) ==
    /\ ~crashed
    /\ \E ch \in channels, i \in indexes :
        \E o \in set_colour(ch, i, 0, 0, 0, led_count, cache_src) :
            Finish("off_led", [channel |-> ch, index |-> i], o)

\* off()
Off ==
    /\ ~crashed
    /\ \E o \in set_colours_rgb(0, 0, 0, 0, led_count, cache_src) :
            Finish("off", [none |-> 0], o)

SetLedCount(counts) ==
    /\ ~crashed
    /\ \E n \in counts : \E o \in set_led_count(n, led_count, cache_src) :
            Finish("set_led_count", [count |-> n], o)

\* ------------------------------------------------------- determine_report_id

DetermineReportId ==
    /\ ~crashed
    /\ \E n \in (0 - MinByteCount)..MaxByteCount :
            Finish("determine_report_id", [count |-> n],
                   Outcome(determine_report_id(n), led_count, cache_src, <<>>, dev, FALSE))

\* -------------------------------------------------------- specifications

\* The facade after construction on a device that reports `counts` LEDs.
InitWith(handles, modes, counts) ==
    /\ handle \in handles
    /\ led_count = Unset
    /\ cache_src = "none"
    /\ dev \in [mode : modes, count : counts, leds : {<<>>}]
    /\ crashed = FALSE
    /\ op = "init"
    /\ arg = [none |-> 0]
    /\ ret = FALSE
    /\ calls = <<>>
    /\ pre_led_count = Unset

Rgb1 == <<1, 2, 3>>
Rgb2 == <<300, -1, 256>>

\* The whole facade on small inputs.
Init == InitWith({"open", "null"}, 0..MaxMode, {0, 2, 9})

Next ==
    \/ SetMode(0..MaxMode)
    \/ GetMode
    \/ SetColour({0, 1}, {0, 1}, {Rgb1})
    \/ SetColours({0}, {0, 1, 3})
    \/ SetColoursRgb({0}, {Rgb1})
    \/ GetColour({0, 1})
    \/ OffLed({0}, {0, 1})
    \/ Off
    \/ GetLedCount
    \/ SetLedCount({0, 2, 9})

Spec == Init /\ [][Next]_vars

\* Single LEDs over the whole range of indexes and channels.
InitColour == InitWith({"open"}, {1}, {2})

NextColour ==
    \/ SetColour({0, 1, 256}, {-1, 0, 1, 63, 64, 256}, {Rgb1, Rgb2})
    \/ GetColour({-1, 0, 1, 63, 64, 256})
    \/ OffLed({0}, {0, 64})

SpecColour == InitColour /\ [][NextColour]_vars

\* The vector overload on long vectors and every report class.
InitColours == InitWith({"open"}, {1}, {0, 8, 9, 17, 33, 64, 65, 128, 129, 255})

NextColours ==
    \/ SetColours({0, 1}, {0, 1, 8, 9, 16, 17, 64, 65, 255, 256, 257, MaxVecLen})
    \/ GetLedCount

SpecColours == InitColours /\ [][NextColours]_vars

\* determine_report_id on every byte count in range.
InitReport == InitWith({"open"}, {1}, {2})

NextReport == DetermineReportId

SpecReport == InitReport /\ [][NextReport]_vars

\* --------------------------------------------------------------- claims

BoolOps == {"set_mode", "set_colour", "set_colours", "set_colours_rgb", "off_led", "off",
            "set_led_count"}
FacadeOps == BoolOps \cup {"get_mode", "get_colour", "get_led_count"}

\* C1: with a null handle every facade operation returns its failure default (false,
\* the unknown mode, black) and issues no transport call, whatever the cache holds.
C1_NullHandleNoTransport ==
    (handle = "null" /\ op \in FacadeOps) =>
        /\ ~crashed
        /\ calls = <<>>
        /\ op \in BoolOps => ret = FALSE
        /\ op = "get_mode" => ret = unknown
        /\ op = "get_colour" => ret = Black

\* C2 as stated: on a valid handle every facade operation issues at most one
\* transport call, also set_colours and off() with the cache unset.
C2_AtMostOneCall == (handle = "open" /\ op \in FacadeOps) => Len(calls) <= 1

\* C2 amended: every facade operation issues at most one transport call, except
\* set_colours (both overloads) and off() started with the cache unset, which issue
\* the LED-count read and then the send: two calls, never more.
C2_AtMostTwoCalls ==
    op \in FacadeOps =>
        /\ Len(calls) <= 2
        /\ Len(calls) = 2 =>
            /\ op \in {"set_colours", "set_colours_rgb", "off"}
            /\ ~pre_led_count.has
            /\ calls[1].fn = "get"
            /\ calls[2].fn = "send"

C2_Witness ==
    /\ handle = "open"
    /\ op = "off"
    /\ ~pre_led_count.has
    /\ Len(calls) = 2

\* C3: get_led_count reads the transport only when the cache is unset, and then
\* caches what it returns (a 0 and a failed read included); with the cache set it
\* returns the cached value with no transport call; no operation other than
\* set_led_count changes a set cache. So two calls with no set_led_count between
\* them agree and cost one read.
C3_CountReadOnce ==
    /\ (op = "get_led_count" /\ ~crashed /\ pre_led_count.has) =>
            /\ calls = <<>>
            /\ ret = pre_led_count.val
            /\ led_count = pre_led_count
    /\ (op = "get_led_count" /\ ~crashed /\ ~pre_led_count.has) =>
            /\ Len(calls) = 1
            /\ calls[1].fn = "get"
            /\ led_count = Some(ret)
    /\ (op \in FacadeOps /\ op # "set_led_count" /\ pre_led_count.has) =>
            led_count = pre_led_count

C3_Witness ==
    /\ op = "get_led_count"
    /\ pre_led_count = Some(0)
    /\ cache_src = "read_failed"
    /\ calls = <<>>
    /\ ret = 0

\* C4: set_led_count(n) returns true and sets the cache to n when the handle is
\* non-null and the send succeeds; it returns false and leaves the cache as it was
\* when the handle is null or the send fails; a get_led_count on a cache that
\* set_led_count filled returns that value with no transport call.
C4_SetCountOnSuccess ==
    /\ (op = "set_led_count" /\ handle = "null") =>
            ret = FALSE /\ calls = <<>> /\ led_count = pre_led_count
    /\ (op = "set_led_count" /\ handle = "open") =>
            /\ Len(calls) = 1
            /\ calls[1].fn = "send"
            /\ calls[1].msg = <<129, arg.count>>
            /\ calls[1].res # -1 => (ret = TRUE /\ led_count = Some(arg.count))
            /\ calls[1].res = -1 => (ret = FALSE /\ led_count = pre_led_count)
    /\ (op = "get_led_count" /\ cache_src = "set") =>
            ret = led_count.val /\ calls = <<>>

C4_Witness ==
    /\ op = "set_led_count"
    /\ ret = TRUE
    /\ pre_led_count = Some(2)
    /\ led_count = Some(9)

\* The report-class table with `last` as the class above 384 bytes.
ReportClassTable(n, last) ==
    IF n <= 24 THEN <<6, 8>>
    ELSE IF n \in 25..48 THEN <<7, 16>>
    ELSE IF n \in 49..96 THEN <<8, 32>>
    ELSE IF n \in 97..192 THEN <<9, 64>>
    ELSE IF n \in 193..384 THEN <<10, 64>>
    ELSE last

C6_CopiesMinLenMaxLeds ==
    (op = "set_colours" /\ handle = "open") =>
        LET rm == determine_report_id(led_count.val * 3)
            max_leds == rm[2]
            n == Min(Len(arg.colours), max_leds)
            msg == calls[Len(calls)].msg
        IN  /\ calls[Len(calls)].fn = "send"
            /\ Len(msg) = max_leds * 3 + 2
            /\ msg[1] = rm[1]
            /\ msg[2] = arg.channel
            /\ \A i \in 0..(n - 1) :
                /\ msg[3 * i + 3] = arg.colours[i + 1].green
                /\ msg[3 * i + 4] = arg.colours[i + 1].red
                /\ msg[3 * i + 5] = arg.colours[i + 1].blue
            /\ \A k \in (3 * n + 3)..Len(msg) : msg[k] = 0

\* C7: after set_colour(ch, i, R, G, B) succeeds (8-bit R, G, B, i >= 0), a
\* get_colour(i) whose read succeeds returns (R, G, B).
C7_RoundTrip ==
    [][(/\ op = "set_colour"
        /\ ret = TRUE
        /\ arg.index >= 0
        /\ arg.channel \in 0..255
        /\ {arg.red, arg.green, arg.blue} \subseteq 0..255
        /\ op' = "get_colour"
        /\ arg'.index = arg.index
        /\ calls'[1].res # -1)
       => ret' = [red |-> arg.red, green |-> arg.green, blue |-> arg.blue]]_vars

\* C8: get_mode sends the template [4, unknown] in one round trip and returns the
\* mode the device holds when the round trip succeeds (the mode of a successful
\* set_mode just before it), the unknown mode when it fails.
C8_GetModeReadsMode ==
    [][(op' = "get_mode" /\ ~crashed') =>
        /\ Len(calls') = 1
        /\ calls'[1].msg = <<4, unknown>>
        /\ calls'[1].res = -1 => ret' = unknown
        /\ calls'[1].res # -1 => ret' = dev.mode
        /\ (calls'[1].res # -1 /\ op = "set_mode" /\ ret = TRUE) => ret' = arg.mode]_vars

\* C9: set_colour(channel, index, R, G, B) sends the 4-byte [1, R, G, B] exactly
\* when index = 0 and channel = 0, and the 6-byte [5, channel, index, R, G, B]
\* otherwise, R, G, B masked to 8 bits.
C9_LegacyIffZeroZero ==
    (op = "set_colour" /\ handle = "open") =>
        LET msg == calls[1].msg
        IN  IF arg.index = 0 /\ arg.channel = 0
            THEN msg = <<1, arg.red % 256, arg.green % 256, arg.blue % 256>>
            ELSE msg = <<5, arg.channel % 256, arg.index % 256,
                         arg.red % 256, arg.green % 256, arg.blue % 256>>

\* C10: for index # 0, the three offsets get_colour reads after a successful read
\* lie inside the buffer it allocated.
C10_ReadsInsideBuffer ==
    (op = "get_colour" /\ arg.index # 0 /\ calls[1].res # -1) =>
        /\ 0 <= arg.index * 3 + 2
        /\ arg.index * 3 + 4 < calls[1].len

====
